---- MODULE Spec2Model ----
(***************************************************************************)
(* A model of the parameter-fitting engine of scme_fitting:                *)
(*   - Fitter (fitter.py): hook_pre_fit, fit_scipy, fit_nevergrad,         *)
(*     hook_post_fit, with the flatten/unflatten transform it relies on;   *)
(*   - SCMEParameterApplier (scme_objective_function.py);                  *)
(*   - next_free_folder (utils.py).                                        *)
(*                                                                         *)
(* A Python str is a sequence of one-character strings, so that joining    *)
(* and splitting keys on the separator is computed, not assumed.  A Python *)
(* dict is a sequence of entries [k, v] in insertion order with distinct   *)
(* keys.  A value is a record [t, n, d, lo, hi]: t = "num" (a number n),   *)
(* "str" (a non-numeric leaf), "pair" (a (lower, upper) bound) or "dict"   *)
(* (a nested mapping d).  An optional number is <<>> (None) or <<n>>.      *)
(***************************************************************************)
EXTENDS Integers, Sequences, FiniteSets, TLC

\* ------------------------------------------------------------------ bounds

\* Keys (at all levels together) of the initial parameters of a fit call.
MaxNodes == 2
\* Keys (at all levels together) of the bounds mapping of a fit call.
MaxFitBoundNodes == 1
\* Objective evaluations the backend issues within one minimize call.
MaxEvals == 2
\* Keys (at all levels together) of the parameters whose transform is checked alone.
MaxTreeNodes == 2
\* Keys (at all levels together) of the bounds whose alignment is checked alone.
MaxBoundNodes == 2
\* Keys (at all levels together) of the parameters of an evaluation checked alone.
MaxEvalNodes == 3
\* Suffixed folders base_0 .. base_(MaxSuffix-1) that may exist on disk.
MaxSuffix == 5

\* ------------------------------------------------------------------ values

None == <<>>
Some(n) == <<n>>

Num(n) == [t |-> "num", n |-> n, d |-> <<>>, lo |-> None, hi |-> None]
Str == [t |-> "str", n |-> 0, d |-> <<>>, lo |-> None, hi |-> None]
Pair(lo, hi) == [t |-> "pair", n |-> 0, d |-> <<>>, lo |-> lo, hi |-> hi]
DictV(d) == [t |-> "dict", n |-> 0, d |-> d, lo |-> None, hi |-> None]

Entry(k, v) == [k |-> k, v |-> v]

\* The separator of flattened keys.
Sep == "."

KeyA == <<"a">>
KeyB == <<"b">>
KeyCD == <<"c", ".", "d">>

\* Key segments a caller may use in a nested parameter mapping.
Segs == {KeyA, KeyB, KeyCD}
\* Key segments a caller may use in a bounds mapping.
BoundSegs == {KeyA, KeyB}
\* Numbers a parameter may take.
Vals == {1, 2}
\* Leaves of a parameter mapping: numbers, a non-numeric leaf, an empty mapping.
ParamLeaves == {Num(n) : n \in Vals} \cup {Str, DictV(<<>>)}
\* Leaves of the initial parameters of a fit call: numbers, a non-numeric leaf.
FitLeaves == {Num(n) : n \in Vals} \cup {Str}
\* Leaves of a bounds mapping.
BoundLeaves == {Pair(Some(0), Some(3)), Pair(None, Some(2))}

\* ------------------------------------------------------------ dict helpers

Range(s) == {s[i] : i \in DOMAIN s}

DictKeys(d) == [i \in DOMAIN d |-> d[i].k]

KeySet(d) == {d[i].k : i \in DOMAIN d}

HasKey(d, k) == k \in KeySet(d)

\* d[k], for a key of d.
DictGet(d, k) == d[CHOOSE i \in DOMAIN d : d[i].k = k].v

\* d[k] = v: an existing key keeps its position, a new key is appended.
DictSet(d, k, v) ==
    IF HasKey(d, k)
    THEN [i \in DOMAIN d |-> IF d[i].k = k THEN Entry(k, v) ELSE d[i]]
    ELSE Append(d, Entry(k, v))

RECURSIVE DictFromItems(_)
\* dict(items): a later item with the same key overwrites the value.
DictFromItems(items) ==
    IF items = <<>> THEN <<>>
    ELSE LET n == Len(items)
         IN DictSet(DictFromItems(SubSeq(items, 1, n - 1)), items[n].k, items[n].v)

\* zip(keys, xs): as long as the shorter of the two.
Zip(ks, xs) ==
    LET n == IF Len(ks) < Len(xs) THEN Len(ks) ELSE Len(xs)
    IN [i \in 1..n |-> Entry(ks[i], xs[i])]

RECURSIVE DictEq(_, _)
\* Python's == of two dicts: the same keys with equal values, in any order.
DictEq(a, b) ==
    /\ KeySet(a) = KeySet(b)
    /\ \A k \in KeySet(a) :
          LET u == DictGet(a, k)
              v == DictGet(b, k)
          IN /\ u.t = v.t
             /\ IF u.t = "dict" THEN DictEq(u.d, v.d) ELSE u = v

RECURSIVE HasNonNumericLeaf(_)
\* Some leaf of d is a value that is no number.
HasNonNumericLeaf(d) ==
    \E i \in DOMAIN d :
        \/ d[i].v.t = "str"
        \/ d[i].v.t = "dict" /\ HasNonNumericLeaf(d[i].v.d)

\* ------------------------------------------------------- flatten, unflatten

RECURSIVE FlattenItems(_, _)
FlattenItems(d, parent_key) ==
    IF d = <<>> THEN <<>>
    ELSE LET e == Head(d)
             new_key == IF parent_key # <<>>
                        THEN parent_key \o <<Sep>> \o e.k
                        ELSE e.k
             items == IF e.v.t = "dict"
                      THEN FlattenItems(e.v.d, new_key)
                      ELSE <<Entry(new_key, e.v)>>
         IN items \o FlattenItems(Tail(d), parent_key)

\* flatten_dict: one entry per leaf, depth first, keys joined by the separator.
flatten_dict(d) == DictFromItems(FlattenItems(d, <<>>))

RECURSIVE Split(_)
\* str.split(sep): the segments of a flat key.
Split(s) ==
    IF \A i \in DOMAIN s : s[i] # Sep THEN <<s>>
    ELSE LET p == CHOOSE i \in DOMAIN s :
                      s[i] = Sep /\ \A j \in 1..(i - 1) : s[j] # Sep
         IN <<SubSeq(s, 1, p - 1)>> \o Split(SubSeq(s, p + 1, Len(s)))

RECURSIVE set_nested(_, _, _)
\* Sets value at the path of d, creating the mappings on the way.
set_nested(d, path, value) ==
    IF Len(path) = 1 THEN DictSet(d, path[1], value)
    ELSE LET sub == IF HasKey(d, path[1]) /\ DictGet(d, path[1]).t = "dict"
                    THEN DictGet(d, path[1]).d
                    ELSE <<>>
         IN DictSet(d, path[1], DictV(set_nested(sub, Tail(path), value)))

RECURSIVE UnflattenFrom(_, _)
UnflattenFrom(result, flat) ==
    IF flat = <<>> THEN result
    ELSE UnflattenFrom(set_nested(result, Split(Head(flat).k), Head(flat).v),
                       Tail(flat))

\* unflatten_dict: each flat key is split on the separator and set as a path.
unflatten_dict(flat) == UnflattenFrom(<<>>, flat)

\* ------------------------------------------------------------- input spaces

RECURSIVE DictsOfSize(_, _, _)
\* The mappings with exactly n keys at all levels together: the first entry
\* holds a leaf or a nested mapping of m keys, the rest holds the others.
DictsOfSize(n, segs, leaves) ==
    IF n = 0 THEN {<<>>}
    ELSE UNION { UNION { { <<Entry(k, v)>> \o rest :
                             v \in (IF m = 0 THEN leaves
                                    ELSE {DictV(s) : s \in DictsOfSize(m, segs, leaves)}),
                             rest \in {r \in DictsOfSize(n - 1 - m, segs, leaves) :
                                          ~HasKey(r, k)} }
                         : m \in 0..(n - 1) }
                 : k \in segs }

NestedDicts(n, segs, leaves) == UNION {DictsOfSize(i, segs, leaves) : i \in 0..n}

\* ------------------------------------------------------------------- state

VARIABLES
    pc,                  \* position of the fit call, or of the helper under check
    backend,             \* "scipy" | "nevergrad": the fit method called
    initial_parameters,  \* Fitter.initial_parameters
    bounds,              \* Fitter.bounds
    keys,                \* Fitter._keys (fit_scipy)
    x0,                  \* fit_scipy: the initial vector
    bnds,                \* fit_scipy: the bounds array, <<>> when None
    ng_params,           \* fit_nevergrad: entries [k, init, lower, upper] of ng.p.Dict
    running,             \* objective evaluations in progress
    scme,                \* the attributes of the shared model (atoms.calc.scme)
    nEvals,              \* evaluations issued by the backend so far
    res_x,               \* the backend's best iterate
    success,             \* res.success
    warned,              \* a "Fit did not converge" warning was logged
    opt_params,          \* opt_params of the fit method
    result,              \* the mapping returned to the caller
    pre_at,              \* the parameters hook_pre_fit evaluated the objective at
    post_at,             \* the parameters hook_post_fit evaluated the objective at
    log,                 \* the steps of the fit call, in order
    err,                 \* the exception that ended the call, "" when none
    exists,              \* next_free_folder: the suffixes whose folder exists
    base_exists,         \* next_free_folder: whether base exists
    cand_i,              \* next_free_folder: i
    folder               \* next_free_folder: the returned path, <<>> before return

fitVars == <<backend, running, scme, nEvals, res_x, success, warned,
             opt_params, result, pre_at, post_at, log, err>>
setupVars == <<keys, x0, bnds, ng_params>>
inputVars == <<initial_parameters, bounds>>
folderVars == <<exists, base_exists, cand_i, folder>>
vars == <<pc, inputVars, setupVars, fitVars, folderVars>>

\* --------------------------------------------- the fit methods' computations

\* fit_scipy: the order of keys of the flattened initial parameters.
FlatKeys(flat_params) == DictKeys(flat_params)

\* A bug: x0 built in another order than the captured keys.
X0OfReversed(flat_params, ks) ==
    [i \in DOMAIN ks |-> DictGet(flat_params, ks[Len(ks) + 1 - i])]

\* fit_scipy: x0 = [flat_params[k] for k in self._keys].
X0Of(flat_params, ks) == [i \in DOMAIN ks |-> DictGet(flat_params, ks[i])]

\* A bug: a key without a bound takes the first bound supplied.
BoundsForFirst(flat_bounds, k) ==
    IF HasKey(flat_bounds, k) THEN DictGet(flat_bounds, k)
    ELSE IF flat_bounds # <<>> THEN flat_bounds[1].v ELSE Pair(None, None)

\* flat_bounds.get(k, (None, None)).
BoundsFor(flat_bounds, k) ==
    IF HasKey(flat_bounds, k) THEN DictGet(flat_bounds, k) ELSE Pair(None, None)

\* fit_scipy: bounds = [flat_bounds.get(k, (None, None)) for k in self._keys];
\* an empty array becomes None, written <<>> as well.
BoundsArray(flat_bounds, ks) == [i \in DOMAIN ks |-> BoundsFor(flat_bounds, ks[i])]

\* A bug: the vector paired with the keys in another order.
ZipKeysReversed(ks, x) ==
    DictFromItems(Zip([i \in DOMAIN ks |-> ks[Len(ks) + 1 - i]], x))

\* fit_scipy, f_scipy: dict(zip(self._keys, x)).
ZipKeys(ks, x) == DictFromItems(Zip(ks, x))

\* fit_scipy, f_scipy: the parameters the objective is called with for x.
FScipyParams(ks, x) == unflatten_dict(ZipKeys(ks, x))

\* fit_nevergrad: one ng.p.Scalar(v, lower, upper) per flattened parameter.
NgParams(flat_params, flat_bounds) ==
    [i \in DOMAIN flat_params |->
        LET b == BoundsFor(flat_bounds, flat_params[i].k)
        IN [k |-> flat_params[i].k, init |-> flat_params[i].v,
            lower |-> b.lo, upper |-> b.hi]]

\* fit_nevergrad, f: the parameters the objective is called with for candidate p.
FNevergradParams(p) == unflatten_dict(p)

\* The vectors a backend may try or return for n coordinates.
Vectors(n) == [1..n -> {Num(v) : v \in Vals}]

IsNumeric(xs) == \A i \in DOMAIN xs : xs[i].t = "num"

\* A bug: an optimizer built to run two evaluations at a time.
two_workers == 1 + 1

\* fit_nevergrad builds NgIohTuned(parametrization, budget) with the default
\* number of workers; scipy's minimize calls f_scipy one call at a time.
num_workers == 1

\* ------------------------------------------------- the model and its applier

\* The attributes of the SCME potential.
Surface == {KeyA, KeyB}

hasattr(key) == key \in Surface

\* One evaluation of the objective: the applier sets params on the model, one
\* key at a time (idx is the next entry of params), then the scalar is computed
\* from the model.  set and before record the applier call: the keys it has set,
\* in order, and the model's attributes when it started.
NewJob(kind, x, params, model) ==
    [kind |-> kind, x |-> x, params |-> params, idx |-> 1, phase |-> "apply",
     set |-> <<>>, before |-> model, value |-> <<>>]

EvalPcs == {"pre_fit", "backend", "post_fit", "eval"}

\* A bug: a key that is no attribute is skipped instead of raising.
ApplyKeySkipUnknown(j) ==
    /\ pc \in EvalPcs
    /\ running[j].phase = "apply"
    /\ running[j].idx <= Len(running[j].params)
    /\ LET e == running[j].params[running[j].idx]
       IN /\ scme' = IF hasattr(e.k) THEN [scme EXCEPT ![e.k] = e.v] ELSE scme
          /\ running' = [running EXCEPT
                            ![j].idx = @ + 1,
                            ![j].set = IF hasattr(e.k) THEN Append(@, e.k) ELSE @]
    /\ UNCHANGED <<pc, err, inputVars, setupVars, folderVars, backend, nEvals,
                   res_x, success, warned, opt_params, result, pre_at, post_at, log>>

\* A bug: the attributes already set are restored before KeyError is raised.
ApplyKeyRollback(j) ==
    /\ pc \in EvalPcs
    /\ running[j].phase = "apply"
    /\ running[j].idx <= Len(running[j].params)
    /\ LET e == running[j].params[running[j].idx]
       IN IF hasattr(e.k)
          THEN /\ scme' = [scme EXCEPT ![e.k] = e.v]
               /\ running' = [running EXCEPT ![j].idx = @ + 1,
                                              ![j].set = Append(@, e.k)]
               /\ UNCHANGED <<pc, err>>
          ELSE /\ pc' = "error"
               /\ err' = "KeyError"
               /\ scme' = running[j].before
               /\ UNCHANGED running
    /\ UNCHANGED <<inputVars, setupVars, folderVars, backend, nEvals, res_x,
                   success, warned, opt_params, result, pre_at, post_at, log>>

\* SCMEParameterApplier.__call__, one iteration of its loop over params.items():
\* an attribute of the potential is set, any other key raises KeyError.
ApplyKey(j) ==
    /\ pc \in EvalPcs
    /\ running[j].phase = "apply"
    /\ running[j].idx <= Len(running[j].params)
    /\ LET e == running[j].params[running[j].idx]
       IN IF hasattr(e.k)
          THEN /\ scme' = [scme EXCEPT ![e.k] = e.v]
               /\ running' = [running EXCEPT ![j].idx = @ + 1,
                                              ![j].set = Append(@, e.k)]
               /\ UNCHANGED <<pc, err>>
          ELSE /\ pc' = "error"
               /\ err' = "KeyError"
               /\ UNCHANGED <<scme, running>>
    /\ UNCHANGED <<inputVars, setupVars, folderVars, backend, nEvals, res_x,
                   success, warned, opt_params, result, pre_at, post_at, log>>

\* The objective computes its scalar from the model once the applier returned.
Compute(j) ==
    /\ pc \in EvalPcs
    /\ running[j].phase = "apply"
    /\ running[j].idx > Len(running[j].params)
    /\ running' = [running EXCEPT ![j].phase = "computed", ![j].value = scme]
    /\ UNCHANGED <<pc, inputVars, setupVars, folderVars, backend, scme, nEvals,
                   res_x, success, warned, opt_params, result, pre_at, post_at,
                   log, err>>

\* The objective may reject a parameter value that is no number when it
\* computes its scalar.
ComputeFails(j) ==
    /\ pc \in EvalPcs
    /\ running[j].phase = "apply"
    /\ running[j].idx > Len(running[j].params)
    /\ HasNonNumericLeaf(running[j].params)
    /\ pc' = "error"
    /\ err' = "ObjectiveError"
    /\ UNCHANGED <<inputVars, setupVars, folderVars, backend, running, scme, nEvals,
                   res_x, success, warned, opt_params, result, pre_at, post_at,
                   log>>

\* ------------------------------------------------------------ the fit call

\* A bug: hook_pre_fit logs the start and does not evaluate the objective.
HookPreFitNoEval ==
    /\ running' = <<>>
    /\ pre_at' = pre_at
    /\ log' = Append(log, "start")

\* hook_pre_fit: the objective is evaluated at the initial parameters.
HookPreFit ==
    /\ running' = <<NewJob("pre", <<>>, initial_parameters, scme)>>
    /\ pre_at' = initial_parameters
    /\ log' = Append(log, "pre_eval")

\* hook_post_fit: the objective is evaluated at the optimal parameters.
HookPostFit(p) ==
    /\ running' = <<NewJob("post", <<>>, p, scme)>>
    /\ post_at' = p
    /\ log' = Append(log, "post_eval")

\* fit_scipy is called: it starts with hook_pre_fit.
FitScipy ==
    /\ pc = "idle"
    /\ backend' = "scipy"
    /\ HookPreFit
    /\ pc' = "pre_fit"
    /\ UNCHANGED <<inputVars, setupVars, folderVars, scme, nEvals, res_x, success,
                   warned, opt_params, result, post_at, err>>

\* fit_nevergrad is called: it starts with hook_pre_fit.
FitNevergrad ==
    /\ pc = "idle"
    /\ backend' = "nevergrad"
    /\ HookPreFit
    /\ pc' = "pre_fit"
    /\ UNCHANGED <<inputVars, setupVars, folderVars, scme, nEvals, res_x, success,
                   warned, opt_params, result, post_at, err>>

\* hook_pre_fit returns once the objective returned its value.
PreFitReturn ==
    /\ pc = "pre_fit"
    /\ Len(running) = 1
    /\ running[1].phase = "computed"
    /\ running' = <<>>
    /\ pc' = "setup"
    /\ UNCHANGED <<inputVars, setupVars, folderVars, backend, scme, nEvals, res_x,
                   success, warned, opt_params, result, pre_at, post_at, log, err>>

\* fit_scipy: flatten, capture the key order, build x0 and the bounds array.
ScipySetup ==
    /\ pc = "setup"
    /\ backend = "scipy"
    /\ LET flat_params == flatten_dict(initial_parameters)
           flat_bounds == flatten_dict(bounds)
       IN /\ keys' = FlatKeys(flat_params)
          /\ x0' = X0Of(flat_params, FlatKeys(flat_params))
          /\ bnds' = BoundsArray(flat_bounds, FlatKeys(flat_params))
    /\ pc' = "minimize"
    /\ UNCHANGED <<inputVars, ng_params, fitVars, folderVars>>

\* fit_nevergrad: flatten, build one bounded scalar per flattened parameter;
\* ng.p.Scalar rejects an initial value that is not a number.
NevergradSetup ==
    /\ pc = "setup"
    /\ backend = "nevergrad"
    /\ LET flat_bounds == flatten_dict(bounds)
           flat_initial_params == flatten_dict(initial_parameters)
           ngp == NgParams(flat_initial_params, flat_bounds)
       IN IF \A i \in DOMAIN ngp : ngp[i].init.t = "num"
          THEN /\ ng_params' = ngp
               /\ pc' = "minimize"
               /\ err' = err
          ELSE /\ ng_params' = ng_params
               /\ pc' = "error"
               /\ err' = "BackendError"
    /\ UNCHANGED <<inputVars, keys, x0, bnds, folderVars, backend, running, scme,
                   nEvals, res_x, success, warned, opt_params, result, pre_at,
                   post_at, log>>

\* The backend's minimize is invoked; scipy rejects an x0 that is not numeric.
Minimize ==
    /\ pc = "minimize"
    /\ log' = Append(log, "minimize")
    /\ nEvals' = 0
    /\ IF backend = "scipy" /\ ~IsNumeric(x0)
       THEN pc' = "error" /\ err' = "BackendError"
       ELSE pc' = "backend" /\ err' = err
    /\ UNCHANGED <<inputVars, setupVars, folderVars, backend, running, scme, res_x,
                   success, warned, opt_params, result, pre_at, post_at>>

\* The coordinates the backend optimizes.
Dim == IF backend = "scipy" THEN Len(x0) ELSE Len(ng_params)

\* The candidate dict nevergrad passes for the values x.
NgCandidate(x) == [i \in DOMAIN ng_params |-> Entry(ng_params[i].k, x[i])]

\* The parameters the objective is evaluated at for the backend's vector x.
CandidateParams(x) ==
    IF backend = "scipy" THEN FScipyParams(keys, x)
    ELSE FNevergradParams(NgCandidate(x))

\* The backend evaluates the objective at a candidate of its choice.
BackendAsk ==
    /\ pc = "backend"
    /\ nEvals < MaxEvals
    /\ Len(running) < num_workers
    /\ \E x \in Vectors(Dim) :
          running' = Append(running, NewJob("backend", x, CandidateParams(x), scme))
    /\ nEvals' = nEvals + 1
    /\ log' = Append(log, "backend_eval")
    /\ UNCHANGED <<pc, inputVars, setupVars, folderVars, backend, scme, res_x,
                   success, warned, opt_params, result, pre_at, post_at, err>>

\* The objective's value is handed back to the backend.
BackendTell(j) ==
    /\ pc = "backend"
    /\ running[j].phase = "computed"
    /\ running' = [i \in 1..(Len(running) - 1) |->
                      IF i < j THEN running[i] ELSE running[i + 1]]
    /\ UNCHANGED <<pc, inputVars, setupVars, folderVars, backend, scme, nEvals,
                   res_x, success, warned, opt_params, result, pre_at, post_at,
                   log, err>>

\* minimize returns its best iterate; scipy reports whether it converged.
BackendReturn ==
    /\ pc = "backend"
    /\ running = <<>>
    /\ \E x \in Vectors(Dim) : res_x' = x
    /\ \E ok \in BOOLEAN : success' = (ok \/ backend = "nevergrad")
    /\ log' = Append(log, "minimize_return")
    /\ pc' = "after_minimize"
    /\ UNCHANGED <<inputVars, setupVars, folderVars, backend, running, scme, nEvals,
                   warned, opt_params, result, pre_at, post_at, err>>

\* A bug: a fit that did not converge raises instead of warning.
ConvergenceCheckRaise(ok) == [warn |-> FALSE, raise |-> ~ok]

\* fit_scipy: if not res.success, a warning is logged (and nothing is raised).
ConvergenceCheck(ok) == [warn |-> ~ok, raise |-> FALSE]

\* fit_scipy after minimize: the convergence check, the result unflattened,
\* hook_post_fit.
ScipyFinish ==
    /\ pc = "after_minimize"
    /\ backend = "scipy"
    /\ LET chk == ConvergenceCheck(success)
           p == unflatten_dict(ZipKeys(keys, res_x))
       IN IF chk.raise
          THEN /\ pc' = "error"
               /\ err' = "NonConvergence"
               /\ UNCHANGED <<warned, opt_params, running, post_at, log>>
          ELSE /\ warned' = chk.warn
               /\ opt_params' = p
               /\ HookPostFit(p)
               /\ pc' = "post_fit"
               /\ err' = err
    /\ UNCHANGED <<inputVars, setupVars, folderVars, backend, scme, nEvals, res_x,
                   success, result, pre_at>>

\* fit_nevergrad after minimize: the recommendation unflattened, hook_post_fit.
NevergradFinish ==
    /\ pc = "after_minimize"
    /\ backend = "nevergrad"
    /\ LET p == unflatten_dict(NgCandidate(res_x))
       IN /\ opt_params' = p
          /\ HookPostFit(p)
    /\ pc' = "post_fit"
    /\ UNCHANGED <<inputVars, setupVars, folderVars, backend, scme, nEvals, res_x,
                   success, warned, result, pre_at, err>>

\* hook_post_fit returns and the fit method returns opt_params.
PostFitReturn ==
    /\ pc = "post_fit"
    /\ Len(running) = 1
    /\ running[1].phase = "computed"
    /\ running' = <<>>
    /\ result' = opt_params
    /\ log' = Append(log, "return")
    /\ pc' = "done"
    /\ UNCHANGED <<inputVars, setupVars, folderVars, backend, scme, nEvals, res_x,
                   success, warned, opt_params, pre_at, post_at, err>>

\* The model's attributes before any parameter is applied.
DefaultModel == [k \in Surface |-> Num(0)]

\* Leaves of the bounds of a fit call.
FitBoundLeaves == {Pair(Some(0), Some(3))}

IdleFit ==
    /\ backend = "none"
    /\ running = <<>>
    /\ scme = DefaultModel
    /\ nEvals = 0
    /\ res_x = <<>>
    /\ success = TRUE
    /\ warned = FALSE
    /\ opt_params = <<>>
    /\ result = <<>>
    /\ pre_at = <<>>
    /\ post_at = <<>>
    /\ log = <<>>
    /\ err = ""

IdleSetup == keys = <<>> /\ x0 = <<>> /\ bnds = <<>> /\ ng_params = <<>>

IdleFolder == exists = {} /\ base_exists = FALSE /\ cand_i = 0 /\ folder = <<>>

\* A Fitter after construction, for every initial parameters and bounds.
Init ==
    /\ pc = "idle"
    /\ initial_parameters \in NestedDicts(MaxNodes, Segs, FitLeaves)
    /\ bounds \in NestedDicts(MaxFitBoundNodes, BoundSegs, FitBoundLeaves)
    /\ IdleSetup
    /\ IdleFit
    /\ IdleFolder

Next ==
    \/ FitScipy
    \/ FitNevergrad
    \/ \E j \in DOMAIN running : ApplyKey(j)
    \/ \E j \in DOMAIN running : Compute(j)
    \/ \E j \in DOMAIN running : ComputeFails(j)
    \/ PreFitReturn
    \/ ScipySetup
    \/ NevergradSetup
    \/ Minimize
    \/ BackendAsk
    \/ \E j \in DOMAIN running : BackendTell(j)
    \/ BackendReturn
    \/ ScipyFinish
    \/ NevergradFinish
    \/ PostFitReturn

Spec == Init /\ [][Next]_vars

\* ------------------------------------- the transform and the bounds, alone

\* The setup of fit_scipy applied to the inputs, and the initial vector paired
\* with the captured keys and unflattened as f_scipy does.
TransformScipy ==
    /\ pc = "inputs"
    /\ LET flat_params == flatten_dict(initial_parameters)
           flat_bounds == flatten_dict(bounds)
           ks == FlatKeys(flat_params)
       IN /\ keys' = ks
          /\ x0' = X0Of(flat_params, ks)
          /\ bnds' = BoundsArray(flat_bounds, ks)
          /\ result' = FScipyParams(ks, X0Of(flat_params, ks))
    /\ pc' = "scipy_built"
    /\ UNCHANGED <<inputVars, ng_params, folderVars, backend, running, scme, nEvals,
                   res_x, success, warned, opt_params, pre_at, post_at, log, err>>

\* The setup of fit_nevergrad applied to the inputs, and the initial values
\* passed as a candidate and unflattened as f does.
TransformNevergrad ==
    /\ pc = "inputs"
    /\ LET flat_bounds == flatten_dict(bounds)
           flat_initial_params == flatten_dict(initial_parameters)
           ngp == NgParams(flat_initial_params, flat_bounds)
       IN /\ ng_params' = ngp
          /\ result' = FNevergradParams([i \in DOMAIN ngp |->
                                            Entry(ngp[i].k, ngp[i].init)])
    /\ pc' = "nevergrad_built"
    /\ UNCHANGED <<inputVars, keys, x0, bnds, folderVars, backend, running, scme,
                   nEvals, res_x, success, warned, opt_params, pre_at, post_at,
                   log, err>>

InitTransform ==
    /\ pc = "inputs"
    /\ initial_parameters \in NestedDicts(MaxTreeNodes, Segs, ParamLeaves)
    /\ bounds \in NestedDicts(MaxBoundNodes, BoundSegs, BoundLeaves)
    /\ IdleSetup
    /\ IdleFit
    /\ IdleFolder

NextTransform == TransformScipy \/ TransformNevergrad

SpecTransform == InitTransform /\ [][NextTransform]_vars

\* ------------------------------------------------------ one evaluation, alone

\* The objective's value is returned to its caller.
EvalReturn ==
    /\ pc = "eval"
    /\ Len(running) = 1
    /\ running[1].phase = "computed"
    /\ pc' = "evaluated"
    /\ UNCHANGED <<inputVars, setupVars, fitVars, folderVars>>

\* Attribute values the model may hold when an evaluation starts.
Models == [Surface -> {Num(0), Num(1)}]

\* Leaves of the parameters of an evaluation.
EvalLeaves == {Num(n) : n \in Vals} \cup {Str}

\* The objective called with any parameters, on a model in any state.
InitEval ==
    /\ pc = "eval"
    /\ initial_parameters \in NestedDicts(MaxEvalNodes, Segs, EvalLeaves)
    /\ bounds = <<>>
    /\ IdleSetup
    /\ backend = "none"
    /\ scme \in Models
    /\ running = <<NewJob("direct", <<>>, initial_parameters, scme)>>
    /\ nEvals = 0
    /\ res_x = <<>>
    /\ success = TRUE
    /\ warned = FALSE
    /\ opt_params = <<>>
    /\ result = <<>>
    /\ pre_at = <<>>
    /\ post_at = <<>>
    /\ log = <<>>
    /\ err = ""
    /\ IdleFolder

NextEval ==
    \/ \E j \in DOMAIN running : ApplyKey(j)
    \/ \E j \in DOMAIN running : Compute(j)
    \/ \E j \in DOMAIN running : ComputeFails(j)
    \/ EvalReturn

SpecEval == InitEval /\ [][NextEval]_vars

\* ----------------------------------------------------------- next_free_folder

\* A bug: the suffixes start at 1.
FolderStartAtOne ==
    /\ pc = "folder_call"
    /\ IF ~base_exists
       THEN folder' = <<"base">> /\ pc' = "folder_returned" /\ cand_i' = cand_i
       ELSE folder' = folder /\ pc' = "folder_loop" /\ cand_i' = 1
    /\ UNCHANGED <<inputVars, setupVars, fitVars, exists, base_exists>>

\* if not base.exists(): return base; otherwise i = 0.
FolderStart ==
    /\ pc = "folder_call"
    /\ IF ~base_exists
       THEN folder' = <<"base">> /\ pc' = "folder_returned" /\ cand_i' = cand_i
       ELSE folder' = folder /\ pc' = "folder_loop" /\ cand_i' = 0
    /\ UNCHANGED <<inputVars, setupVars, fitVars, exists, base_exists>>

\* candidate = base_i: returned when it does not exist, otherwise i += 1.
FolderLoop ==
    /\ pc = "folder_loop"
    /\ IF cand_i \notin exists
       THEN folder' = <<"base", cand_i>> /\ pc' = "folder_returned" /\ cand_i' = cand_i
       ELSE folder' = folder /\ pc' = pc /\ cand_i' = cand_i + 1
    /\ UNCHANGED <<inputVars, setupVars, fitVars, exists, base_exists>>

\* next_free_folder called on any state of the disk.
InitFolder ==
    /\ pc = "folder_call"
    /\ initial_parameters = <<>>
    /\ bounds = <<>>
    /\ IdleSetup
    /\ IdleFit
    /\ base_exists \in BOOLEAN
    /\ exists \in SUBSET (0..(MaxSuffix - 1))
    /\ cand_i = 0
    /\ folder = <<>>

NextFolder == FolderStart \/ FolderLoop

\* The loop is a sequential program: it takes its next step while it has one.
SpecFolder == InitFolder /\ [][NextFolder]_vars /\ WF_vars(NextFolder)

\* --------------------------------------------------------------- properties

RECURSIVE NumericLeaves(_)
\* Every leaf of d is a number; a nested mapping that is empty is a value that
\* is no number.
NumericLeaves(d) ==
    \A i \in DOMAIN d :
        \/ d[i].v.t = "num"
        \/ d[i].v.t = "dict" /\ d[i].v.d # <<>> /\ NumericLeaves(d[i].v.d)

RECURSIVE SeparatorFree(_)
\* No key of d, at any level, contains the separator.
SeparatorFree(d) ==
    \A i \in DOMAIN d :
        /\ \A c \in DOMAIN d[i].k : d[i].k[c] # Sep
        /\ d[i].v.t = "dict" => SeparatorFree(d[i].v.d)

IsPrefix(a, b) == Len(a) <= Len(b) /\ \A i \in DOMAIN a : a[i] = b[i]

HoldsAt(p, k, v) ==
    LET f == flatten_dict(p) IN HasKey(f, k) /\ DictGet(f, k) = v

\* The bound supplied for the flat key k, (None, None) when there is none.
SuppliedBound(k) ==
    LET fb == flatten_dict(bounds)
    IN IF \E i \in DOMAIN fb : fb[i].k = k
       THEN fb[CHOOSE i \in DOMAIN fb : fb[i].k = k].v
       ELSE Pair(None, None)

\* The keys of the coordinates of the fit call in progress, in order.
CoordKeys ==
    IF backend = "scipy" THEN keys ELSE [i \in DOMAIN ng_params |-> ng_params[i].k]

\* C2: one key ordering per fit call: position i of x0, of the bounds, of every
\* candidate the backend evaluates and of the result belongs to the i-th key
\* captured when the initial parameters were flattened.
C2_OneKeyOrdering ==
    LET fp == flatten_dict(initial_parameters)
        built == pc \in {"minimize", "backend", "after_minimize", "post_fit", "done"}
    IN /\ built =>
            /\ CoordKeys = DictKeys(fp)
            /\ backend = "scipy" =>
                 /\ Len(x0) = Len(fp) /\ Len(bnds) = Len(fp)
                 /\ \A i \in DOMAIN fp :
                       x0[i] = fp[i].v /\ bnds[i] = SuppliedBound(fp[i].k)
            /\ backend = "nevergrad" =>
                 \A i \in DOMAIN fp :
                     /\ ng_params[i].init = fp[i].v
                     /\ Pair(ng_params[i].lower, ng_params[i].upper)
                            = SuppliedBound(fp[i].k)
       /\ \A j \in DOMAIN running :
             running[j].kind = "backend" =>
                 /\ Len(running[j].x) = Len(fp)
                 /\ \A i \in DOMAIN fp :
                       HoldsAt(running[j].params, fp[i].k, running[j].x[i])
       /\ pc \in {"post_fit", "done"} =>
             /\ Len(res_x) = Len(fp)
             /\ \A i \in DOMAIN fp : HoldsAt(opt_params, fp[i].k, res_x[i])
       /\ pc = "done" => result = opt_params

\* A fit over two keys with distinct initial values, distinct candidate values
\* and distinct result values has returned.
C2_Witness ==
    /\ pc = "done"
    /\ backend = "scipy"
    /\ nEvals >= 1
    /\ Len(keys) = 2
    /\ x0[1] # x0[2]
    /\ res_x[1] # res_x[2]

\* C3: for both fit methods and every flattened parameter key, the bound handed
\* to the backend is the supplied bound of that key, and (None, None) when none
\* is supplied; a bound key that is no parameter key yields no entry and no
\* error, and changes neither x0 nor another key's bound.
C3_BoundsAligned ==
    LET fp == flatten_dict(initial_parameters)
    IN /\ err = ""
       /\ pc = "scipy_built" =>
            /\ Len(bnds) = Len(fp) /\ Len(x0) = Len(fp)
            /\ \A i \in DOMAIN fp :
                  /\ keys[i] = fp[i].k
                  /\ x0[i] = fp[i].v
                  /\ bnds[i] = SuppliedBound(fp[i].k)
       /\ pc = "nevergrad_built" =>
            /\ Len(ng_params) = Len(fp)
            /\ \A i \in DOMAIN fp :
                  /\ ng_params[i].k = fp[i].k
                  /\ ng_params[i].init = fp[i].v
                  /\ Pair(ng_params[i].lower, ng_params[i].upper)
                         = SuppliedBound(fp[i].k)

\* A key with a supplied bound, a key without one and a bound key that is no
\* parameter key, in one call.
C3_Witness ==
    LET fb == flatten_dict(bounds)
    IN /\ pc = "scipy_built"
       /\ \E i \in DOMAIN keys : HasKey(fb, keys[i]) /\ bnds[i] # Pair(None, None)
       /\ \E i \in DOMAIN keys : ~HasKey(fb, keys[i]) /\ bnds[i] = Pair(None, None)
       /\ \E i \in DOMAIN fb : fb[i].k \notin Range(keys)

\* Some key of params is no attribute of the potential.
HasUnknownKey(params) == \E i \in DOMAIN params : ~hasattr(params[i].k)

\* C4: an evaluation whose parameters hold a key that is no attribute of the
\* potential raises KeyError at that key, before any scalar is computed, and
\* yields no objective value.
C4_UnknownParameterGuard ==
    /\ \A j \in DOMAIN running :
          HasUnknownKey(running[j].params) =>
              /\ running[j].phase = "apply"
              /\ running[j].value = <<>>
              /\ running[j].idx <= Len(running[j].params)
              /\ \A i \in 1..(running[j].idx - 1) : hasattr(running[j].params[i].k)
              /\ pc # "evaluated"
    /\ (pc = "error" /\ HasUnknownKey(running[1].params)) =>
          /\ err = "KeyError"
          /\ ~hasattr(running[1].params[running[1].idx].k)

\* An evaluation was aborted by KeyError after a first key had been applied.
C4_Witness ==
    /\ pc = "error"
    /\ err = "KeyError"
    /\ running[1].idx = 2
    /\ running[1].value = <<>>

\* C10: after KeyError at key k nothing is rolled back: every key before k holds
\* its new value on the model, and no key after k has been set.
C10_NoRollback ==
    (pc = "error" /\ err = "KeyError") =>
        LET job == running[1]
            ps == job.params
        IN /\ Len(job.set) = job.idx - 1
           /\ \A i \in 1..(job.idx - 1) :
                 job.set[i] = ps[i].k /\ scme[ps[i].k] = ps[i].v
           /\ \A i \in (job.idx + 1)..Len(ps) :
                 /\ ps[i].k \notin Range(job.set)
                 /\ hasattr(ps[i].k) => scme[ps[i].k] = job.before[ps[i].k]

\* KeyError at the second of three keys: the first changed the model, the third
\* is an attribute that kept another value than the one it was to take.
C10_Witness ==
    /\ pc = "error"
    /\ err = "KeyError"
    /\ running[1].idx = 2
    /\ Len(running[1].params) = 3
    /\ scme[running[1].params[1].k] # running[1].before[running[1].params[1].k]
    /\ hasattr(running[1].params[3].k)
    /\ scme[running[1].params[3].k] # running[1].params[3].v

\* C5: when scipy reports no convergence, fit_scipy warns and does not fail: the
\* post-fit evaluation runs and the best iterate is returned as a nested mapping
\* over the captured keys, as in the converged case.
C5_NonConvergenceRecovered ==
    /\ err # "NonConvergence"
    /\ (backend = "scipy" /\ pc \in {"post_fit", "done"}) => (warned <=> ~success)
    /\ (backend = "scipy" /\ pc = "done") =>
          /\ log[Len(log) - 1] = "post_eval"
          /\ DictEq(result, unflatten_dict(DictFromItems(Zip(keys, res_x))))
          /\ KeySet(flatten_dict(result)) = Range(keys)
    /\ (backend = "scipy" /\ ~success) => pc # "error"

\* A fit that did not converge has returned a mapping.
C5_Witness ==
    /\ pc = "done"
    /\ backend = "scipy"
    /\ ~success
    /\ warned
    /\ Len(keys) >= 1

\* C6 as stated: with a non-numeric leaf in the initial parameters the backend's
\* minimize is never invoked and no mapping is returned.
C6_TypeMismatchAborts ==
    HasNonNumericLeaf(initial_parameters) =>
        /\ \A i \in DOMAIN log : log[i] # "minimize"
        /\ pc # "done"

\* The steps of a completed fit call with n backend evaluations.
ExpectedLog(n) ==
    <<"pre_eval", "minimize">> \o [i \in 1..n |-> "backend_eval"]
        \o <<"minimize_return", "post_eval", "return">>

\* C8: a fit call evaluates the objective at the initial parameters first, then
\* invokes minimize exactly once, then evaluates the objective at the unflattened
\* result, then returns that result; every backend evaluation lies in between.
C8_StepOrder ==
    /\ \E n \in 0..MaxEvals : IsPrefix(log, ExpectedLog(n))
    /\ pc # "idle" => (Len(log) >= 1 /\ pre_at = initial_parameters)
    /\ pc = "done" =>
          /\ log = ExpectedLog(nEvals)
          /\ post_at = result
          /\ result = opt_params

\* A fit call with a backend evaluation has returned.
C8_Witness ==
    /\ pc = "done"
    /\ nEvals >= 1
    /\ Len(log) >= 6

\* C9: at most one evaluation is in progress at any time, and every scalar was
\* computed while the model held the parameters of its own evaluation.
C9_NoInterleaving ==
    /\ Len(running) <= 1
    /\ \A j \in DOMAIN running :
          running[j].phase = "computed" =>
              \A i \in DOMAIN running[j].params :
                  running[j].value[running[j].params[i].k] = running[j].params[i].v

\* The second evaluation of the backend computed its scalar on a model the
\* first one had set to other values.
C9_Witness ==
    /\ pc = "backend"
    /\ nEvals = 2
    /\ Len(running) = 1
    /\ running[1].phase = "computed"
    /\ Len(running[1].params) >= 1
    /\ running[1].value # running[1].before

\* The path next_free_folder returns is base when base does not exist, and
\* otherwise base_i for the least i whose folder does not exist.
FolderOK ==
    IF ~base_exists THEN folder = <<"base">>
    ELSE /\ Len(folder) = 2
         /\ folder[1] = "base"
         /\ folder[2] \notin exists
         /\ \A j \in 0..(folder[2] - 1) : j \in exists

\* C7: next_free_folder returns, and the path it returns does not exist: base,
\* or base_i for the least i >= 0 such that base_i does not exist.
C7_NextFreeFolder ==
    /\ [](pc = "folder_returned" => FolderOK)
    /\ <>(pc = "folder_returned")

\* base, base_0 and base_1 exist and base_2 is returned.
C7_Witness ==
    /\ pc = "folder_returned"
    /\ base_exists
    /\ folder = <<"base", 2>>

====
